---- MODULE Spec2Model ----
(***************************************************************************)
(* Model of package lhm (github.com/mjolnir42/lhm): LogHandleMap, a        *)
(* registry of named, reopenable log files with their loggers, its         *)
(* Init/Setup bootstrap, and the Reopen loop that serves SIGUSR2.          *)
(*                                                                         *)
(* Names are sequences of characters so that strings.HasPrefix is          *)
(* computed, not assumed.  File writers and loggers are heap objects with  *)
(* an identity (a positive number); the nil pointer is Nil.  Every method  *)
(* that takes the RWMutex and releases it with defer before returning is   *)
(* one action, enabled when the mutex can be taken; the Reopen loop, which *)
(* keeps the mutex over many statements, and the early log calls, which    *)
(* read x.configured before they take it, advance statement by statement.  *)
(***************************************************************************)
EXTENDS Integers, Sequences, FiniteSets, TLC

(***************************************************************************)
(* Bounds of the model.                                                    *)
(***************************************************************************)
\* writer/logger pairs the callers construct (Open, Add) in one behaviour
MaxObj == 2
\* level changes callers make through logger handles in one behaviour
MaxSet == 1
\* goroutines that may be inside EarlyPrintf / EarlyFatal at the same time
NCallers == 1

(***************************************************************************)
(* Program constants.                                                      *)
(***************************************************************************)
Nil == 0
\* logrus.Level values used by the package and its callers
ErrorLevel == 2
InfoLevel == 4
DebugLevel == 5
\* make(chan os.Signal, 1)
ChanCap == 1
\* the error returned by reopen.NewFileWriter
ErrNewFileWriter == 1

EarlyKey == <<"_", "_", "e", "a", "r", "l", "y">>
\* the stream names callers choose, and all keys they may look up
Names == {<<"a">>, <<"b">>, <<"x", "a">>}
Keys == Names \cup {EarlyKey}
Prefixes == {<<>>, <<"x">>}
\* the levels callers ask for: one that hides Info records, one that shows them
Levels == {ErrorLevel, DebugLevel}
\* the level of the loggers callers build themselves and hand to Add
AddLevels == {ErrorLevel}
\* the base path given to New, and the base paths given to Setup
NewPath == <<"p">>
SetupPaths == {<<"q">>, <<"r">>}
Callers == 1..NCallers

VARIABLES
    hmap,        \* x.hmap: name -> file writer
    lmap,        \* x.lmap: name -> logger
    bp,          \* x.bp
    signal,      \* x.signal: the channel (its identity), Nil before Setup
    configured,  \* x.configured
    mu,          \* the embedded sync.RWMutex: "unlocked" or "locked" (write)
    loggers,     \* heap of logrus.Logger objects: id -> [Level, ExitFunc]
    nwriters,    \* number of reopen.FileWriter objects constructed so far
    nset,        \* number of level changes callers have made so far
    chans,       \* heap of signal channels: id -> number of buffered signals
    proc,        \* the process: "run", "exit" (os.Exit), "panic", "fatal"
    co,          \* the frame of the goroutine running Reopen
    early,       \* per caller: the early log call that has passed its check
    ret,         \* the last value returned to a caller
    plog,        \* history: what the current (or last) pass did, in order
    psnap,       \* history: maps and levels when that pass took the lock
    reg          \* history: per name, the registration that is still current

regv == <<hmap, lmap, bp, signal, configured>>
vars == <<hmap, lmap, bp, signal, configured, mu, loggers, nwriters, nset, chans,
          proc, co, early, ret, plog, psnap, reg>>

(***************************************************************************)
(* Go maps and strings.                                                    *)
(***************************************************************************)
EmptyMap == [k \in {} |-> Nil]
\* m[k]: the zero value (nil) when k is not a key
Get(m, k) == IF k \in DOMAIN m THEN m[k] ELSE Nil
\* m[k] = v
Put(m, k, v) == [x \in (DOMAIN m) \cup {k} |-> IF x = k THEN v ELSE m[x]]
\* delete(m, k)
Delete(m, k) == [x \in (DOMAIN m) \ {k} |-> m[x]]
\* strings.HasPrefix(s, prefix)
HasPrefix(s, prefix) ==
    /\ Len(s) >= Len(prefix)
    /\ SubSeq(s, 1, Len(prefix)) = prefix

Min(a, b) == IF a < b THEN a ELSE b

\* a return (or, for Add and Del, a completed call): the method, its key,
\* the writer, logger, channel and error involved, and whether a log line
\* was written
Ret(op, key, fh, lg, ch, err, out) ==
    [op |-> op, key |-> key, fh |-> fh, lg |-> lg, ch |-> ch, err |-> err,
     out |-> out]
NoRet == Ret("none", <<>>, Nil, Nil, Nil, Nil, FALSE)

\* what the callers have done to a name: the writer of its last
\* registration (Nil once deleted), the logger last stored under it (Nil
\* once Setup removed it), the level that logger was given (Nil once a
\* caller has changed it), how many registrations the name has seen since
\* it was last deleted (capped at 2) and the method that made the last one
Reg(fh, lg, lvl, n, by) == [fh |-> fh, lg |-> lg, lvl |-> lvl, n |-> n, by |-> by]
NoReg == Reg(Nil, Nil, Nil, 0, "none")

Event(ev, name, id, lvl) == [ev |-> ev, name |-> name, id |-> id, lvl |-> lvl]

\* a pass: "running", "done" (it reached the end of the range) or "aborted"
\* (a Reopen failed); the registry as the pass found it; the loggers whose
\* level a caller set while the pass held the mutex
Snap(st, h, l, lgs, set) ==
    [st |-> st, hmap |-> h, lmap |-> l, loggers |-> lgs, callerSet |-> set]
NoSnap == Snap("none", EmptyMap, EmptyMap, <<>>, {})

Idle == [pc |-> "off", ignorePrefix |-> <<>>, ch |-> Nil, todo |-> {},
         name |-> <<>>, lg |-> Nil, lvl |-> Nil, locked |-> FALSE, err |-> Nil]

\* logrus: a record of severity l is written iff the logger's level >= l
IsLevelEnabled(lg, l) == loggers[lg].Level >= l

\* logger.SetLevel(l) on the heap
WithLevel(lg, l) == [loggers EXCEPT ![lg].Level = l]

(***************************************************************************)
(* New and Init.                                                           *)
(***************************************************************************)
New(basepath) ==
    /\ hmap = EmptyMap
    /\ lmap = EmptyMap
    /\ bp = basepath
    /\ chans = <<0>>
    /\ signal = 1
    /\ configured = TRUE
    /\ loggers = <<>>

InitEarly ==
    /\ hmap = EmptyMap
    /\ lmap = Put(EmptyMap, EarlyKey, 1)
    /\ bp = <<>>
    /\ chans = <<>>
    /\ signal = Nil
    /\ configured = FALSE
    /\ loggers = <<[Level |-> DebugLevel, ExitFunc |-> "noop"]>>

Init ==
    /\ \/ New(NewPath)
       \/ InitEarly
    /\ mu = "unlocked"
    /\ nwriters = 0
    /\ nset = 0
    /\ proc = "run"
    /\ co = Idle
    /\ early = [t \in Callers |-> "idle"]
    /\ ret = NoRet
    /\ plog = <<>>
    /\ psnap = NoSnap
    /\ reg = [k \in Keys |->
                IF Get(lmap, k) = Nil THEN NoReg
                ELSE Reg(Nil, lmap[k], loggers[lmap[k]].Level, 0, "Init")]

(***************************************************************************)
(* The RWMutex.  Lock and RLock return only while no writer holds it; the  *)
(* methods below release it before they return, so outside the Reopen loop *)
(* it is never seen held.                                                  *)
(***************************************************************************)
\* The history of a pass is kept while the pass runs and after it until a
\* caller next changes the registry or a logger.
KeptLog == IF mu = "locked" THEN plog ELSE <<>>
KeptSnap == IF mu = "locked" THEN psnap ELSE NoSnap

CanLock == mu = "unlocked"
CanRLock == mu = "unlocked"

Running == proc = "run"

(***************************************************************************)
(* Setup                                                                   *)
(***************************************************************************)
\* logger.Exit(code): runs logger.ExitFunc, which ends the process unless
\* it was replaced (Init installs an empty function)
Exits(lg) == loggers[lg].ExitFunc = "os.Exit"

Promote(basepath) ==
    /\ lmap' = Delete(lmap, EarlyKey)
    /\ bp' = basepath
    /\ chans' = Append(chans, 0)
    /\ signal' = Len(chans) + 1
    /\ configured' = TRUE
    /\ ret' = Ret("Setup", basepath, Nil, Nil, Len(chans) + 1, Nil, FALSE)
    /\ reg' = [reg EXCEPT ![EarlyKey].lg = Nil, ![EarlyKey].lvl = Nil]
    /\ plog' = KeptLog
    /\ psnap' = KeptSnap
    /\ UNCHANGED <<hmap, proc>>

SetupResets(basepath) ==
    /\ Running
    /\ CanLock
    /\ IF configured
         THEN /\ ret' = Ret("Setup", basepath, Nil, Nil, signal, Nil, FALSE)
              /\ configured' = FALSE
              /\ UNCHANGED <<hmap, lmap, bp, signal, chans, proc, reg, plog, psnap>>
         ELSE IF Get(lmap, EarlyKey) = Nil
         THEN /\ proc' = "panic"
              /\ UNCHANGED <<regv, chans, ret, reg, plog, psnap>>
         ELSE Promote(basepath)
    /\ UNCHANGED <<mu, loggers, nwriters, nset, co, early>>

SetupUnguarded(basepath) ==
    /\ Running
    /\ CanLock
    /\ IF Get(lmap, EarlyKey) = Nil
         THEN /\ proc' = "panic"
              /\ UNCHANGED <<regv, chans, ret, reg, plog, psnap>>
         ELSE Promote(basepath)
    /\ UNCHANGED <<mu, loggers, nwriters, nset, co, early>>

\* x.Lock(); defer x.Unlock(); if x.configured { return &x.signal }; ...
Setup(basepath) ==
    /\ Running
    /\ CanLock
    /\ IF configured
         THEN /\ ret' = Ret("Setup", basepath, Nil, Nil, signal, Nil, FALSE)
              /\ UNCHANGED <<regv, chans, proc, reg, plog, psnap>>
         ELSE IF Get(lmap, EarlyKey) = Nil
         THEN /\ proc' = "panic"
              /\ UNCHANGED <<regv, chans, ret, reg, plog, psnap>>
         ELSE IF Exits(Get(lmap, EarlyKey))
         THEN /\ proc' = "exit"
              /\ UNCHANGED <<regv, chans, ret, reg, plog, psnap>>
         ELSE Promote(basepath)
    /\ UNCHANGED <<mu, loggers, nwriters, nset, co, early>>

(***************************************************************************)
(* EarlyPrintf, EarlyFatal                                                 *)
(***************************************************************************)
EarlyCheckUngated(t, op) ==
    /\ Running
    /\ early[t] = "idle"
    /\ ret' = NoRet
    /\ early' = [early EXCEPT ![t] = op]
    /\ UNCHANGED <<regv, mu, loggers, nwriters, nset, chans, proc, co, plog,
                   psnap, reg>>

\* if x.configured { return }, read without the mutex
EarlyCheck(t, op) ==
    /\ Running
    /\ early[t] = "idle"
    /\ IF configured
         THEN /\ ret' = Ret(op, <<>>, Nil, Nil, Nil, Nil, FALSE)
              /\ early' = early
         ELSE /\ ret' = NoRet
              /\ early' = [early EXCEPT ![t] = op]
    /\ UNCHANGED <<regv, mu, loggers, nwriters, nset, chans, proc, co, plog,
                   psnap, reg>>

\* logrus writes Printf at Info severity and Fatal at Fatal severity, which
\* every level lets through, and Fatal then calls logger.Exit(1)
EarlyWritten(op, lg) == op = "EarlyFatal" \/ IsLevelEnabled(lg, InfoLevel)

\* x.RLock(); defer x.RUnlock(); x.lmap[`__early`].Printf / .Fatal
EarlyBody(t) ==
    /\ Running
    /\ early[t] # "idle"
    /\ CanRLock
    /\ early' = [early EXCEPT ![t] = "idle"]
    /\ LET lg == Get(lmap, EarlyKey) IN
         IF lg = Nil
         THEN /\ proc' = "panic"
              /\ ret' = NoRet
         ELSE /\ ret' = Ret(early[t], <<>>, Nil, lg, Nil, Nil,
                            EarlyWritten(early[t], lg))
              /\ proc' = IF early[t] = "EarlyFatal" /\ Exits(lg)
                            THEN "exit" ELSE proc
    /\ UNCHANGED <<regv, mu, loggers, nwriters, nset, chans, co, plog, psnap, reg>>

(***************************************************************************)
(* Add, GetFileHandle, GetLogger, Del, Open                                *)
(***************************************************************************)
AddIfAbsent(key, fh, lg) ==
    /\ CanLock
    /\ hmap' = IF key \in DOMAIN hmap THEN hmap ELSE Put(hmap, key, fh)
    /\ lmap' = IF key \in DOMAIN lmap THEN lmap ELSE Put(lmap, key, lg)

\* x.Lock(); defer x.Unlock(); x.hmap[key] = fh; x.lmap[key] = lg
Add(key, fh, lg) ==
    /\ CanLock
    /\ hmap' = Put(hmap, key, fh)
    /\ lmap' = Put(lmap, key, lg)

Registered(key, fh, lg, lvl, by) ==
    [reg EXCEPT ![key] = Reg(fh, lg, lvl, Min(reg[key].n + 1, 2), by)]

\* The ExitFunc of a logger a caller passes to Add: the logrus default or
\* a replacement that returns.  Exit is only ever called on the logger
\* stored under `__early`, so the choice is drawn for that name alone.
ExitFuncs(key) == IF key = EarlyKey THEN {"noop", "os.Exit"} ELSE {"os.Exit"}

\* a caller builds a writer and a logger and registers them
CallAdd(key, lvl, exitFunc) ==
    /\ Running
    /\ nwriters < MaxObj
    /\ nwriters' = nwriters + 1
    /\ loggers' = Append(loggers, [Level |-> lvl, ExitFunc |-> exitFunc])
    /\ Add(key, nwriters + 1, Len(loggers) + 1)
    /\ ret' = NoRet
    /\ reg' = Registered(key, nwriters + 1, Len(loggers) + 1, lvl, "Add")
    /\ plog' = KeptLog
    /\ psnap' = KeptSnap
    /\ UNCHANGED <<bp, signal, configured, mu, nset, chans, proc, co, early>>

GetFileHandle(key) ==
    /\ Running
    /\ CanRLock
    /\ ret' = Ret("GetFileHandle", key, Get(hmap, key), Nil, Nil, Nil, FALSE)
    /\ UNCHANGED <<regv, mu, loggers, nwriters, nset, chans, proc, co, early, plog,
                   psnap, reg>>

GetLogger(key) ==
    /\ Running
    /\ CanLock
    /\ ret' = Ret("GetLogger", key, Nil, Get(lmap, key), Nil, Nil, FALSE)
    /\ UNCHANGED <<regv, mu, loggers, nwriters, nset, chans, proc, co, early, plog,
                   psnap, reg>>

DelBoth(key) ==
    /\ Running
    /\ CanLock
    /\ hmap' = Delete(hmap, key)
    /\ lmap' = Delete(lmap, key)
    /\ ret' = NoRet
    /\ reg' = [reg EXCEPT ![key].fh = Nil, ![key].n = 0, ![key].by = "none"]
    /\ plog' = KeptLog
    /\ psnap' = KeptSnap
    /\ UNCHANGED <<bp, signal, configured, mu, loggers, nwriters, nset, chans,
                   proc, co, early>>

\* x.Lock(); defer x.Unlock(); delete(x.hmap, key)
Del(key) ==
    /\ Running
    /\ CanLock
    /\ hmap' = Delete(hmap, key)
    /\ ret' = NoRet
    /\ reg' = [reg EXCEPT ![key].fh = Nil, ![key].n = 0, ![key].by = "none"]
    /\ plog' = KeptLog
    /\ psnap' = KeptSnap
    /\ UNCHANGED <<lmap, bp, signal, configured, mu, loggers, nwriters, nset, chans,
                   proc, co, early>>

OpenFailsRegisters(fname, lvl) ==
    /\ nwriters' = nwriters + 1
    /\ loggers' = Append(loggers, [Level |-> lvl, ExitFunc |-> "os.Exit"])
    /\ Add(fname, Nil, Len(loggers) + 1)
    /\ ret' = Ret("Open", fname, Nil, Nil, Nil, ErrNewFileWriter, FALSE)
    /\ plog' = KeptLog
    /\ psnap' = KeptSnap
    /\ UNCHANGED <<bp, signal, configured, reg>>

\* reopen.NewFileWriter fails: return err, nothing else
OpenFails(fname, lvl) ==
    /\ ret' = Ret("Open", fname, Nil, Nil, Nil, ErrNewFileWriter, FALSE)
    /\ UNCHANGED <<regv, loggers, nwriters, reg, plog, psnap>>

OpenSucceedsAtDefault(fname, lvl) ==
    /\ nwriters' = nwriters + 1
    /\ loggers' = Append(loggers, [Level |-> InfoLevel, ExitFunc |-> "os.Exit"])
    /\ Add(fname, nwriters + 1, Len(loggers) + 1)
    /\ ret' = Ret("Open", fname, Nil, Nil, Nil, Nil, FALSE)
    /\ reg' = Registered(fname, nwriters + 1, Len(loggers) + 1, lvl, "Open")
    /\ plog' = KeptLog
    /\ psnap' = KeptSnap
    /\ UNCHANGED <<bp, signal, configured>>

\* the writer is made; logrus.New() with nl.Out = fh, the start line at the
\* default Info level, nl.SetLevel(lvl), then x.Add(fname, fh, nl)
OpenSucceeds(fname, lvl) ==
    /\ nwriters' = nwriters + 1
    /\ loggers' = Append(loggers, [Level |-> lvl, ExitFunc |-> "os.Exit"])
    /\ Add(fname, nwriters + 1, Len(loggers) + 1)
    /\ ret' = Ret("Open", fname, Nil, Nil, Nil, Nil, FALSE)
    /\ reg' = Registered(fname, nwriters + 1, Len(loggers) + 1, lvl, "Open")
    /\ plog' = KeptLog
    /\ psnap' = KeptSnap
    /\ UNCHANGED <<bp, signal, configured>>

Open(fname, lvl) ==
    /\ Running
    /\ nwriters < MaxObj
    /\ \/ OpenFails(fname, lvl)
       \/ OpenSucceeds(fname, lvl)
    /\ UNCHANGED <<mu, nset, chans, proc, co, early>>

(***************************************************************************)
(* A caller changes the level of a logger it holds (it built the logger,   *)
(* or GetLogger returned it): logrus' SetLevel, which takes no lock of the *)
(* registry.                                                               *)
(***************************************************************************)
SetLevel(lg, lvl) ==
    /\ Running
    /\ lg \in 1..Len(loggers)
    /\ loggers[lg].Level # lvl
    /\ nset < MaxSet
    /\ nset' = nset + 1
    /\ loggers' = WithLevel(lg, lvl)
    /\ plog' = KeptLog
    /\ psnap' = IF mu = "locked"
                  THEN [psnap EXCEPT !.callerSet = @ \cup {lg}]
                  ELSE NoSnap
    /\ reg' = [k \in Keys |->
                 IF reg[k].lg = lg THEN [reg[k] EXCEPT !.lvl = Nil] ELSE reg[k]]
    /\ ret' = NoRet
    /\ UNCHANGED <<regv, mu, nwriters, chans, proc, co, early>>

(***************************************************************************)
(* SIGUSR2 arrives: signal.Notify sends without blocking to every          *)
(* registered channel, so a signal that finds the buffer full is dropped.  *)
(***************************************************************************)
NotifyQueued(n) == n + 1

Notify(n) == Min(n + 1, ChanCap)

Deliver ==
    /\ Running
    /\ Len(chans) > 0
    /\ chans' = [i \in DOMAIN chans |-> Notify(chans[i])]
    /\ ret' = NoRet
    /\ UNCHANGED <<regv, mu, loggers, nwriters, nset, proc, co, early, plog, psnap,
                   reg>>

(***************************************************************************)
(* Reopen: the loop of the rotation goroutine.                             *)
(*   off     not started                                                   *)
(*   select  at the head of the for loop, about to evaluate x.signal       *)
(*   recv    blocked in select on the channel it evaluated                 *)
(*   lock    a signal was received; at rangeLock()                         *)
(*   range   at the head of the range loop, holding the mutex              *)
(*   reopen  inside lfHandle.Reopen()                                      *)
(*   setinfo at lg.SetLevel(logrus.InfoLevel)                              *)
(*   infoln  at lg.Infoln(...)                                             *)
(*   restore at lg.SetLevel(lvl)                                           *)
(*   abort   Reopen failed, the mutex is released; at abortFunc(err)       *)
(***************************************************************************)
\* the error value of a failed lfHandle.Reopen(), told apart by its writer
ReopenError(fh) == fh

rangeNoLock ==
    /\ CanLock
    /\ mu' = mu

\* x.Lock(); return x.hmap
rangeLock ==
    /\ CanLock
    /\ mu' = "locked"

\* x.Unlock() of a mutex that is not locked is a fatal runtime error
rangeUnlock ==
    IF mu = "locked"
    THEN mu' = "unlocked" /\ proc' = proc
    ELSE mu' = mu /\ proc' = "fatal"

ReopenStart(ignorePrefix) ==
    /\ Running
    /\ co.pc = "off"
    /\ co' = [Idle EXCEPT !.pc = "select", !.ignorePrefix = ignorePrefix]
    /\ ret' = NoRet
    /\ UNCHANGED <<regv, mu, loggers, nwriters, nset, chans, proc, early, plog,
                   psnap, reg>>

\* select { case <-x.signal: the channel operand is evaluated once, on
\* entering the select, and without the mutex
SelectEval ==
    /\ Running
    /\ co.pc = "select"
    /\ co' = [co EXCEPT !.pc = "recv", !.ch = signal, !.todo = {}]
    /\ plog' = <<>>
    /\ psnap' = NoSnap
    /\ ret' = NoRet
    /\ UNCHANGED <<regv, mu, loggers, nwriters, nset, chans, proc, early, reg>>

\* a receive from a nil channel blocks forever
Receive ==
    /\ Running
    /\ co.pc = "recv"
    /\ co.ch # Nil
    /\ chans[co.ch] > 0
    /\ chans' = [chans EXCEPT ![co.ch] = @ - 1]
    /\ co' = [co EXCEPT !.pc = "lock", !.locked = TRUE]
    /\ ret' = NoRet
    /\ UNCHANGED <<regv, mu, loggers, nwriters, nset, proc, early, plog, psnap, reg>>

\* for name, lfHandle := range x.rangeLock()
PassLock ==
    /\ Running
    /\ co.pc = "lock"
    /\ rangeLock
    /\ co' = [co EXCEPT !.pc = "range", !.todo = DOMAIN hmap]
    /\ plog' = <<>>
    /\ psnap' = Snap("running", hmap, lmap, loggers, {})
    /\ ret' = NoRet
    /\ UNCHANGED <<regv, loggers, nwriters, nset, chans, proc, early, reg>>

SkipsNonEmpty(name, ignorePrefix) ==
    ignorePrefix # <<>> /\ HasPrefix(name, ignorePrefix)

SkipsSwapped(name, ignorePrefix) == HasPrefix(ignorePrefix, name)

\* if strings.HasPrefix(name, ignorePrefix) { continue }
Skips(name, ignorePrefix) == HasPrefix(name, ignorePrefix)

\* the next key of the range, in any order
RangeNext ==
    /\ Running
    /\ co.pc = "range"
    /\ co.todo # {}
    /\ \E name \in co.todo :
          co' = IF Skips(name, co.ignorePrefix)
                THEN [co EXCEPT !.todo = @ \ {name}]
                ELSE [co EXCEPT !.todo = @ \ {name}, !.pc = "reopen",
                                !.name = name]
    /\ ret' = NoRet
    /\ UNCHANGED <<regv, mu, loggers, nwriters, nset, chans, proc, early, plog,
                   psnap, reg>>

\* the range is exhausted: if locked { x.rangeUnlock() }, back to the select
RangeEnd ==
    /\ Running
    /\ co.pc = "range"
    /\ co.todo = {}
    /\ IF co.locked THEN rangeUnlock ELSE UNCHANGED <<mu, proc>>
    /\ co' = [co EXCEPT !.pc = "select", !.locked = FALSE]
    /\ psnap' = [psnap EXCEPT !.st = "done"]
    /\ ret' = NoRet
    /\ UNCHANGED <<regv, loggers, nwriters, nset, chans, early, plog, reg>>

getLoggerNolock(key) == Get(lmap, key)

\* err := lfHandle.Reopen() returns nil; lg := x.getLoggerNolock(name);
\* lvl := lg.Level (a nil lg panics)
ReopenOk ==
    /\ Running
    /\ co.pc = "reopen"
    /\ plog' = Append(plog, Event("Reopen", co.name, hmap[co.name], Nil))
    /\ LET lg == getLoggerNolock(co.name) IN
         IF lg = Nil
         THEN /\ proc' = "panic"
              /\ co' = co
         ELSE /\ proc' = proc
              /\ co' = [co EXCEPT !.pc = "setinfo", !.lg = lg,
                                   !.lvl = loggers[lg].Level]
    /\ ret' = NoRet
    /\ UNCHANGED <<regv, mu, loggers, nwriters, nset, chans, early, psnap, reg>>

ReopenErrKeepsLock ==
    /\ Running
    /\ co.pc = "reopen"
    /\ plog' = Append(plog, Event("ReopenErr", co.name,
                                   ReopenError(hmap[co.name]), Nil))
    /\ co' = [co EXCEPT !.pc = "abort", !.err = ReopenError(hmap[co.name])]
    /\ psnap' = [psnap EXCEPT !.st = "aborted"]
    /\ ret' = NoRet
    /\ UNCHANGED <<regv, mu, loggers, nwriters, nset, chans, proc, early, reg>>

\* err != nil: x.rangeUnlock(); locked = false
ReopenErr ==
    /\ Running
    /\ co.pc = "reopen"
    /\ plog' = Append(plog, Event("ReopenErr", co.name,
                                   ReopenError(hmap[co.name]), Nil))
    /\ rangeUnlock
    /\ co' = [co EXCEPT !.pc = "abort", !.locked = FALSE,
                         !.err = ReopenError(hmap[co.name])]
    /\ psnap' = [psnap EXCEPT !.st = "aborted"]
    /\ ret' = NoRet
    /\ UNCHANGED <<regv, loggers, nwriters, nset, chans, early, reg>>

AbortCallNoBreak ==
    /\ Running
    /\ co.pc = "abort"
    /\ plog' = Append(plog, Event("abortFunc", co.name, co.err, Nil))
    /\ co' = [co EXCEPT !.pc = "range", !.name = <<>>, !.err = Nil]
    /\ ret' = NoRet
    /\ UNCHANGED <<regv, mu, loggers, nwriters, nset, chans, proc, early,
                   psnap, reg>>

\* abortFunc(err); break fileloop; if locked { ... } finds locked false
AbortCall ==
    /\ Running
    /\ co.pc = "abort"
    /\ plog' = Append(plog, Event("abortFunc", co.name, co.err, Nil))
    /\ IF co.locked THEN rangeUnlock ELSE UNCHANGED <<mu, proc>>
    /\ co' = [co EXCEPT !.pc = "select", !.name = <<>>, !.err = Nil,
                         !.locked = FALSE]
    /\ ret' = NoRet
    /\ UNCHANGED <<regv, loggers, nwriters, nset, chans, early, psnap, reg>>

\* lg.SetLevel(logrus.InfoLevel)
ForceInfo ==
    /\ Running
    /\ co.pc = "setinfo"
    /\ loggers' = WithLevel(co.lg, InfoLevel)
    /\ plog' = Append(plog, Event("SetLevel", co.name, co.lg, InfoLevel))
    /\ co' = [co EXCEPT !.pc = "infoln"]
    /\ ret' = NoRet
    /\ UNCHANGED <<regv, mu, nwriters, nset, chans, proc, early, psnap, reg>>

\* lg.Infoln("Reopened logfile ..."): written iff the level lets Info through
Marker ==
    /\ Running
    /\ co.pc = "infoln"
    /\ plog' = IF IsLevelEnabled(co.lg, InfoLevel)
                 THEN Append(plog, Event("Infoln", co.name, co.lg,
                                         loggers[co.lg].Level))
                 ELSE plog
    /\ co' = [co EXCEPT !.pc = "restore"]
    /\ ret' = NoRet
    /\ UNCHANGED <<regv, mu, loggers, nwriters, nset, chans, proc, early, psnap, reg>>

RestoreLevelLost ==
    /\ Running
    /\ co.pc = "restore"
    /\ plog' = Append(plog, Event("SetLevel", co.name, co.lg, loggers[co.lg].Level))
    /\ co' = [co EXCEPT !.pc = "range", !.name = <<>>, !.lg = Nil, !.lvl = Nil]
    /\ ret' = NoRet
    /\ UNCHANGED <<regv, mu, loggers, nwriters, nset, chans, proc, early,
                   psnap, reg>>

\* lg.SetLevel(lvl), and on to the next key
RestoreLevel ==
    /\ Running
    /\ co.pc = "restore"
    /\ loggers' = WithLevel(co.lg, co.lvl)
    /\ plog' = Append(plog, Event("SetLevel", co.name, co.lg, co.lvl))
    /\ co' = [co EXCEPT !.pc = "range", !.name = <<>>, !.lg = Nil, !.lvl = Nil]
    /\ ret' = NoRet
    /\ UNCHANGED <<regv, mu, nwriters, nset, chans, proc, early, psnap, reg>>

(***************************************************************************)
(* The system.                                                             *)
(***************************************************************************)
Next ==
    \/ \E basepath \in SetupPaths : Setup(basepath)
    \/ \E t \in Callers : \E op \in {"EarlyPrintf", "EarlyFatal"} : EarlyCheck(t, op)
    \/ \E t \in Callers : EarlyBody(t)
    \/ \E key \in Names : \E lvl \in AddLevels : \E f \in ExitFuncs(key) :
          CallAdd(key, lvl, f)
    \/ \E key \in Keys : GetFileHandle(key)
    \/ \E key \in Keys : GetLogger(key)
    \/ \E key \in Names : Del(key)
    \/ \E fname \in Names : \E lvl \in Levels : Open(fname, lvl)
    \/ Deliver
    \/ \E ignorePrefix \in Prefixes : ReopenStart(ignorePrefix)
    \/ SelectEval
    \/ Receive
    \/ PassLock
    \/ RangeNext
    \/ RangeEnd
    \/ ReopenOk
    \/ ReopenErr
    \/ AbortCall
    \/ ForceInfo
    \/ Marker
    \/ RestoreLevel

\* the package with callers that keep to the stream names
Spec == Init /\ [][Next]_vars

\* the package with callers that pass any key, the reserved one included,
\* to Add, Del and Open
AnyKeys == {<<"a">>, EarlyKey}

NextAnyKey ==
    \/ \E basepath \in SetupPaths : Setup(basepath)
    \/ \E t \in Callers : \E op \in {"EarlyPrintf", "EarlyFatal"} : EarlyCheck(t, op)
    \/ \E t \in Callers : EarlyBody(t)
    \/ \E key \in AnyKeys : \E lvl \in AddLevels : \E f \in ExitFuncs(key) :
          CallAdd(key, lvl, f)
    \/ \E key \in AnyKeys : GetFileHandle(key)
    \/ \E key \in AnyKeys : GetLogger(key)
    \/ \E key \in AnyKeys : Del(key)
    \/ \E fname \in AnyKeys : \E lvl \in Levels : Open(fname, lvl)
    \/ Deliver
    \/ \E ignorePrefix \in Prefixes : ReopenStart(ignorePrefix)
    \/ SelectEval
    \/ Receive
    \/ PassLock
    \/ RangeNext
    \/ RangeEnd
    \/ ReopenOk
    \/ ReopenErr
    \/ AbortCall
    \/ ForceInfo
    \/ Marker
    \/ RestoreLevel

SpecAnyKey == Init /\ [][NextAnyKey]_vars

\* the package together with callers that change levels through the logger
\* handles they hold
LevelNames == {<<"a">>}

NextLevels ==
    \/ \E basepath \in SetupPaths : Setup(basepath)
    \/ \E t \in Callers : \E op \in {"EarlyPrintf", "EarlyFatal"} : EarlyCheck(t, op)
    \/ \E t \in Callers : EarlyBody(t)
    \/ \E key \in LevelNames : \E lvl \in AddLevels : \E f \in ExitFuncs(key) :
          CallAdd(key, lvl, f)
    \/ \E key \in LevelNames : GetFileHandle(key)
    \/ \E key \in LevelNames : GetLogger(key)
    \/ \E key \in LevelNames : Del(key)
    \/ \E fname \in LevelNames : \E lvl \in Levels : Open(fname, lvl)
    \/ \E lg \in 1..(MaxObj + 1) : \E lvl \in Levels : SetLevel(lg, lvl)
    \/ Deliver
    \/ \E ignorePrefix \in Prefixes : ReopenStart(ignorePrefix)
    \/ SelectEval
    \/ Receive
    \/ PassLock
    \/ RangeNext
    \/ RangeEnd
    \/ ReopenOk
    \/ ReopenErr
    \/ AbortCall
    \/ ForceInfo
    \/ Marker
    \/ RestoreLevel

SpecLevels == Init /\ [][NextLevels]_vars

\* the package under a scheduler that lets the Reopen goroutine run: each of
\* its statements is executed once it can be, a writer's Reopen returns,
\* and so does the abort callback.  Callers use one stream name.
FairNames == {<<"a">>}
FairPaths == {<<"q">>}

Callers1 ==
    \/ \E basepath \in FairPaths : Setup(basepath)
    \/ \E t \in Callers : \E op \in {"EarlyPrintf", "EarlyFatal"} : EarlyCheck(t, op)
    \/ \E t \in Callers : EarlyBody(t)
    \/ \E key \in FairNames : GetLogger(key)
    \/ \E key \in FairNames : Del(key)
    \/ \E fname \in FairNames : \E lvl \in AddLevels : Open(fname, lvl)
    \/ Deliver
    \/ \E ignorePrefix \in Prefixes : ReopenStart(ignorePrefix)

ReopenReturns == ReopenOk \/ ReopenErr

NextFair ==
    \/ Callers1
    \/ SelectEval
    \/ Receive
    \/ PassLock
    \/ RangeNext
    \/ RangeEnd
    \/ ReopenReturns
    \/ AbortCall
    \/ ForceInfo
    \/ Marker
    \/ RestoreLevel

SpecFair ==
    /\ Init
    /\ [][NextFair]_vars
    /\ WF_vars(SelectEval)
    /\ WF_vars(Receive)
    /\ WF_vars(PassLock)
    /\ WF_vars(RangeNext)
    /\ WF_vars(RangeEnd)
    /\ WF_vars(ReopenReturns)
    /\ WF_vars(AbortCall)
    /\ WF_vars(ForceInfo)
    /\ WF_vars(Marker)
    /\ WF_vars(RestoreLevel)

(***************************************************************************)
(* Properties of a rotation pass, read off its history.                    *)
(***************************************************************************)
Events(ev) == {i \in DOMAIN plog : plog[i].ev = ev}
EventsOf(ev, name) == {i \in Events(ev) : plog[i].name = name}
SnapLevel(lg) == psnap.loggers[lg].Level
LevelsAsFound == \A lg \in DOMAIN psnap.loggers : loggers[lg].Level = SnapLevel(lg)
NoneSkipped == \A k \in DOMAIN psnap.hmap : ~HasPrefix(k, co.ignorePrefix)

\* what the pass does to one entry whose writer reopens: the four events
\* from index i on
Visit(i, k) ==
    /\ plog[i] = Event("Reopen", k, Get(psnap.hmap, k), Nil)
    /\ plog[i + 1] = Event("SetLevel", k, Get(psnap.lmap, k), InfoLevel)
    /\ plog[i + 2] = Event("Infoln", k, Get(psnap.lmap, k), InfoLevel)
    /\ plog[i + 3] = Event("SetLevel", k, Get(psnap.lmap, k),
                           SnapLevel(Get(psnap.lmap, k)))

\* C1: a pass that reaches the end of the range over a registry none of
\* whose names ignorePrefix matches (so no Reopen failed) has called Reopen
\* once on the writer of every entry, has written one marker per entry, on
\* the entry's logger and at level Info, and leaves every logger at the
\* level it had when the pass took the mutex.
PassCompleteness ==
    /\ psnap.st = "running" => proc = "run"
    /\ (psnap.st = "done" /\ NoneSkipped) =>
           /\ \A k \in DOMAIN psnap.hmap :
                 /\ Cardinality({i \in Events("Reopen") :
                                    plog[i].id = psnap.hmap[k]}) = 1
                 /\ Cardinality(EventsOf("Infoln", k)) = 1
                 /\ \A i \in EventsOf("Infoln", k) :
                       /\ plog[i].lvl = InfoLevel
                       /\ plog[i].id = Get(psnap.lmap, k)
           /\ Cardinality(Events("Reopen")) = Cardinality(DOMAIN psnap.hmap)
           /\ Cardinality(Events("Infoln")) = Cardinality(DOMAIN psnap.hmap)
           /\ Events("ReopenErr") = {}
           /\ LevelsAsFound

\* a finished pass over two entries, none skipped, one of whose loggers
\* hides Info records
PassCompletenessWitness ==
    /\ psnap.st = "done"
    /\ co.ignorePrefix = <<"x">>
    /\ NoneSkipped
    /\ Cardinality(DOMAIN psnap.hmap) = 2
    /\ \E k \in DOMAIN psnap.hmap : SnapLevel(psnap.lmap[k]) = ErrorLevel
    /\ Len(plog) = 8

\* C2: once a Reopen has failed, every entry visited before it has its
\* four events and its level back, the callback is called once, with the
\* error that Reopen returned, nothing follows in the pass, and the
\* entries the range had not reached appear nowhere in the history and
\* keep their levels.
PartialFailure ==
    psnap.st = "aborted" =>
        /\ Cardinality(Events("ReopenErr")) = 1
        /\ LET f == CHOOSE i \in Events("ReopenErr") : TRUE IN
             /\ (f - 1) % 4 = 0
             /\ \A j \in 0..((f - 1) \div 4 - 1) :
                   \E k \in DOMAIN psnap.hmap : Visit(4 * j + 1, k)
             /\ plog[f].id # Nil
             /\ Len(plog) = IF co.pc = "abort" THEN f ELSE f + 1
             /\ Len(plog) = f + 1 =>
                   plog[f + 1] = Event("abortFunc", plog[f].name, plog[f].id, Nil)
             /\ \A k \in co.todo : \A i \in DOMAIN plog : plog[i].name # k
             /\ \A i \in DOMAIN plog : \A j \in DOMAIN plog :
                   (i # j /\ plog[i].ev = "Reopen") => plog[i].name # plog[j].name
                                                        \/ plog[j].ev # "Reopen"
             /\ LevelsAsFound
             /\ hmap = psnap.hmap /\ lmap = psnap.lmap

\* the failing entry was the first of the range, the callback has run and
\* an entry that ignorePrefix does not match was never reached
PartialFailureWitness ==
    /\ psnap.st = "aborted"
    /\ co.pc = "select"
    /\ Len(plog) = 2
    /\ \E k \in co.todo : ~HasPrefix(k, co.ignorePrefix)

\* C3: no event of a pass (Reopen call, level change, marker) concerns a
\* name that ignorePrefix matches, and the logger of such a name keeps the
\* level the pass found.
PrefixSkip ==
    /\ \A i \in DOMAIN plog : ~HasPrefix(plog[i].name, co.ignorePrefix)
    /\ \A k \in DOMAIN psnap.lmap :
          HasPrefix(k, co.ignorePrefix) =>
              loggers[psnap.lmap[k]].Level = SnapLevel(psnap.lmap[k])

\* a finished pass that reopened one entry and skipped another
PrefixSkipWitness ==
    /\ psnap.st = "done"
    /\ co.ignorePrefix = <<"x">>
    /\ Len(plog) = 4
    /\ <<"x", "a">> \in DOMAIN psnap.hmap

(***************************************************************************)
(* The mutex during a pass.                                                *)
(***************************************************************************)
Iterating == co.pc \in {"range", "reopen", "setinfo", "infoln", "restore"}

\* a step in which a method that takes the mutex runs to its return
LockingCall ==
    \/ \E basepath \in SetupPaths : Setup(basepath)
    \/ \E key \in Keys : \E lvl \in Levels : \E f \in ExitFuncs(key) :
          CallAdd(key, lvl, f)
    \/ \E key \in Keys : GetFileHandle(key) \/ GetLogger(key) \/ Del(key)
    \/ \E fname \in Keys : \E lvl \in Levels : Open(fname, lvl) /\ ret'.err = Nil
    \/ \E t \in Callers : EarlyBody(t)

\* C4: from the step that takes the mutex to the end of the range or the
\* first failed Reopen the coordinator holds the mutex, also inside a
\* writer's Reopen; while it is held no Setup, Add, Del, GetLogger,
\* GetFileHandle (or Open's Add) of a caller completes, the maps stay as the
\* pass found them, and only the coordinator releases it.
ExclusivePass ==
    /\ [](Iterating => /\ mu = "locked"
                        /\ co.locked
                        /\ psnap.st = "running"
                        /\ psnap.hmap = hmap
                        /\ psnap.lmap = lmap)
    /\ [][mu = "locked" =>
            /\ ~LockingCall
            /\ regv' = regv
            /\ reg' = reg
            /\ mu' # mu => /\ co.pc \in {"range", "reopen"}
                            /\ co'.pc \in {"select", "abort"}]_vars

\* the coordinator is inside the Reopen of one of two registered writers,
\* with the other still to visit
ExclusivePassWitness ==
    /\ co.pc = "reopen"
    /\ mu = "locked"
    /\ Cardinality(DOMAIN hmap) = 2
    /\ co.todo # {}

(***************************************************************************)
(* Bootstrap: the early log calls and Setup.                               *)
(***************************************************************************)
EarlyOps == {"EarlyPrintf", "EarlyFatal"}
NoEarlyCall == \A t \in Callers : early[t] = "idle"
\* the logger Init stores under `__early`
Sentinel == 1

\* C5: while configured is false the registry is one made by Init and an
\* early call that looks the sentinel up is written by it, EarlyFatal
\* included, and the process goes on; an early call that starts once
\* configured is true (after Setup, or on a registry made by New) returns
\* at its check: it takes no lock, writes nothing and changes nothing.
EarlyGate ==
    /\ [](~configured => /\ Get(lmap, EarlyKey) = Sentinel
                          /\ loggers[Sentinel].ExitFunc = "noop"
                          /\ signal = Nil)
    /\ [][(~configured /\ \E t \in Callers : EarlyBody(t)) =>
              /\ ret'.op \in EarlyOps
              /\ ret'.lg = Sentinel
              /\ ret'.out
              /\ proc' = "run"]_vars
    /\ [][(configured /\ NoEarlyCall) =>
              /\ NoEarlyCall'
              /\ ret'.op \in EarlyOps =>
                    /\ ret'.lg = Nil
                    /\ ~ret'.out
                    /\ UNCHANGED <<regv, mu, loggers, chans, proc, reg>>]_vars

\* an early call made after Setup has configured a registry made by Init
EarlyGateWitness ==
    /\ configured
    /\ bp \in SetupPaths
    /\ EarlyKey \notin DOMAIN lmap
    /\ ret.op = "EarlyFatal"
    /\ ret.lg = Nil
    /\ proc = "run"

\* C6: a Setup on a configured registry returns the channel the registry
\* has and changes nothing, whatever base path it is given; base path,
\* channel and flag change only in the one Setup that finds configured
\* false, which sets it; no second channel is ever made.
SetupIdempotent ==
    /\ [](configured => signal # Nil /\ Len(chans) = 1)
    /\ [][(\E basepath \in SetupPaths : Setup(basepath)) =>
              /\ ret'.op = "Setup"
              /\ ret'.ch = signal'
              /\ configured'
              /\ proc' = "run"
              /\ configured =>
                    UNCHANGED <<regv, chans, loggers, reg>>]_vars
    /\ [][(bp' # bp \/ signal' # signal \/ configured' # configured) =>
              /\ ~configured
              /\ configured'
              /\ ret'.op = "Setup"
              /\ bp' = ret'.key]_vars

\* a second Setup, with another base path than the one that configured
\* the registry, has returned
SetupIdempotentWitness ==
    /\ ret.op = "Setup"
    /\ ret.key = <<"r">>
    /\ bp = <<"q">>
    /\ ret.ch = signal
    /\ configured

(***************************************************************************)
(* Registration: Open, Add, Del and the getters.                           *)
(***************************************************************************)
Returned(op, key) == ret.op = op /\ ret.key = key
\* the steps in which a name is registered, and in which a Del completes
Registers(k) == reg'[k] # reg[k] /\ reg'[k].n > 0
Deletes(k) == Del(k)
OthersKept(k) ==
    \A j \in Keys \ {k} : /\ Get(hmap', j) = Get(hmap, j)
                           /\ Get(lmap', j) = Get(lmap, j)
                           /\ (j \in DOMAIN hmap') = (j \in DOMAIN hmap)
                           /\ (j \in DOMAIN lmap') = (j \in DOMAIN lmap)

\* C7: when Open(n, l) has returned nil, and for as long as that
\* registration of n is the current one, the maps hold a writer and a
\* logger under n, GetFileHandle(n) and GetLogger(n) return them, and the
\* logger's level is l whenever a getter returns.
OpenThenGet ==
    /\ (ret.op = "Open" /\ ret.err = Nil) =>
          /\ reg[ret.key].by = "Open"
          /\ Get(hmap, ret.key) # Nil
          /\ Get(lmap, ret.key) # Nil
          /\ loggers[lmap[ret.key]].Level = reg[ret.key].lvl
    /\ \A n \in Names :
          reg[n].by = "Open" =>
              /\ reg[n].lvl \in Levels
              /\ Returned("GetFileHandle", n) => ret.fh # Nil
              /\ Returned("GetLogger", n) =>
                    /\ ret.lg # Nil
                    /\ loggers[ret.lg].Level = reg[n].lvl

\* GetLogger returns the logger of a name opened at Error level, after a
\* pass that reopened that name's file has finished
OpenThenGetWitness ==
    /\ ret.op = "GetLogger"
    /\ reg[ret.key].by = "Open"
    /\ reg[ret.key].lvl = ErrorLevel
    /\ ret.lg # Nil
    /\ psnap.st = "done"
    /\ Len(plog) = 4
    /\ plog[1].name = ret.key

\* C8: a registration of a name stores the writer and the logger just
\* made under it and leaves every other name as it was; a name registered
\* twice has the writer and logger of the second registration, and the
\* getters return those.
ReRegistration ==
    /\ [](\A n \in Names :
             reg[n].n = 2 =>
                 /\ Get(hmap, n) = reg[n].fh
                 /\ Get(lmap, n) = reg[n].lg
                 /\ Returned("GetFileHandle", n) => ret.fh = reg[n].fh
                 /\ Returned("GetLogger", n) => ret.lg = reg[n].lg)
    /\ [][\A n \in Names :
             Registers(n) =>
                 /\ Get(hmap', n) = nwriters'
                 /\ Get(lmap', n) = Len(loggers')
                 /\ reg'[n].fh = nwriters'
                 /\ reg'[n].lg = Len(loggers')
                 /\ nwriters' = nwriters + 1
                 /\ Len(loggers') = Len(loggers) + 1
                 /\ OthersKept(n)]_vars

\* GetFileHandle returns the second writer for a name registered twice,
\* on a registry that also holds the sentinel
ReRegistrationWitness ==
    /\ ret.op = "GetFileHandle"
    /\ reg[ret.key].n = 2
    /\ ret.fh = 2
    /\ EarlyKey \in DOMAIN lmap

\* C9: an Open whose NewFileWriter fails returns that error and leaves the
\* maps, the loggers and the objects made so far as they were, so a name
\* registered before keeps its writer and logger.
OpenFailure ==
    /\ [][((\E fname \in Names : \E lvl \in Levels : Open(fname, lvl))
               /\ ret'.err # Nil) =>
              /\ ret'.err = ErrNewFileWriter
              /\ UNCHANGED <<regv, loggers, nwriters, reg>>]_vars
    /\ []((ret.op = "Open" /\ ret.err # Nil) =>
              /\ ret.err = ErrNewFileWriter
              /\ Get(hmap, ret.key) = reg[ret.key].fh
              /\ Get(lmap, ret.key) = reg[ret.key].lg
              /\ (ret.key \in DOMAIN hmap) = (reg[ret.key].n > 0))

\* Open has failed for a name that is registered
OpenFailureWitness ==
    /\ ret.op = "Open"
    /\ ret.err = ErrNewFileWriter
    /\ reg[ret.key].n = 1
    /\ Get(hmap, ret.key) # Nil
    /\ Get(lmap, ret.key) # Nil

\* C10: Del(n) takes n out of the handle map and changes nothing else;
\* until n is registered again GetFileHandle(n) returns nil, GetLogger(n)
\* returns the logger n had, and no pass reopens or marks n.
DelWriterOnly ==
    /\ [][\A n \in Names :
             Deletes(n) =>
                 /\ n \notin DOMAIN hmap'
                 /\ UNCHANGED <<lmap, bp, signal, configured, loggers>>
                 /\ OthersKept(n)]_vars
    /\ [](\A n \in Names :
             reg[n].n = 0 =>
                 /\ n \notin DOMAIN hmap
                 /\ Get(lmap, n) = reg[n].lg
                 /\ Returned("GetFileHandle", n) => ret.fh = Nil
                 /\ Returned("GetLogger", n) => ret.lg = reg[n].lg
                 /\ \A i \in DOMAIN plog :
                       plog[i].ev \in {"Reopen", "ReopenErr", "Infoln", "SetLevel"}
                           => plog[i].name # n)

\* a name was registered and deleted, a pass over the rest of the registry
\* has finished, and GetLogger still returns the name's logger
DelWriterOnlyWitness ==
    /\ ret.op = "GetLogger"
    /\ ret.key \in Names
    /\ reg[ret.key].n = 0
    /\ ret.lg # Nil
    /\ psnap.st = "done"
    /\ ret.key \in DOMAIN psnap.lmap
    /\ Len(plog) = 4

(***************************************************************************)
(* The configured flag and what it stands for.                             *)
(***************************************************************************)
\* C11: configured never goes from true to false, and a step that changes
\* it is a Setup; being a flag that only rises, it changes at most once.
ConfiguredMonotone ==
    /\ [][configured => configured']_vars
    /\ [][configured' # configured =>
              /\ \E basepath \in SetupPaths : Setup(basepath)
              /\ ~configured
              /\ configured']_vars

\* a registry made by Init was configured by Setup, a pass has run since
\* and a getter has returned
ConfiguredMonotoneWitness ==
    /\ configured
    /\ bp \in SetupPaths
    /\ psnap.st = "done"
    /\ Len(plog) = 4
    /\ ret.op = "GetFileHandle"

\* C12: while configured is true there is no logger under `__early`, so
\* GetLogger(`__early`) returns nil, and base path and channel stay as they
\* were when the registry was configured.
SentinelGone ==
    /\ [](configured =>
             /\ EarlyKey \notin DOMAIN lmap
             /\ Returned("GetLogger", EarlyKey) => ret.lg = Nil)
    /\ [][configured => bp' = bp /\ signal' = signal]_vars

(***************************************************************************)
(* Loggers in the hands of callers.                                        *)
(***************************************************************************)
\* between lvl := lg.Level and lg.SetLevel(lvl)
InLevelWindow == co.pc \in {"setinfo", "infoln", "restore"}

\* C13: no level change of a caller reaches a logger between the
\* coordinator's read of its level and the restore, and the restore always
\* finds the Info level the coordinator itself set, so it overwrites no
\* level a caller has chosen.
NoLevelRace ==
    /\ [][\A lg \in DOMAIN loggers : \A lvl \in Levels :
             SetLevel(lg, lvl) => ~(InLevelWindow /\ co.lg = lg)]_vars
    /\ [][RestoreLevel => loggers[co.lg].Level = InfoLevel]_vars

(***************************************************************************)
(* The abort callback.                                                     *)
(***************************************************************************)
\* C14: when the coordinator is about to call abortFunc the mutex is free
\* and stays free over the call, so Del, GetLogger, Add and Open of the
\* callback can run; the call is made only after a failed Reopen, once,
\* and then the pass is over; a pass whose Reopen calls all succeed has no
\* abortFunc call.
AbortUnlocked ==
    /\ [](co.pc = "abort" =>
             /\ mu = "unlocked"
             /\ ~co.locked
             /\ co.err # Nil
             /\ Events("abortFunc") = {}
             /\ Running =>
                   /\ ENABLED (\E key \in Names : Del(key))
                   /\ ENABLED (\E key \in Names : GetLogger(key))
                   /\ nwriters < MaxObj =>
                         /\ ENABLED (\E key \in Names : CallAdd(key, ErrorLevel, "os.Exit"))
                         /\ ENABLED (\E key \in Names : OpenSucceeds(key, ErrorLevel)))
    /\ [](/\ Cardinality(Events("abortFunc")) <= 1
          /\ psnap.st \in {"running", "done"} => Events("abortFunc") = {}
          /\ (psnap.st = "aborted" /\ co.pc # "abort") =>
                Cardinality(Events("abortFunc")) = 1)
    /\ [][Events("abortFunc")' # Events("abortFunc") =>
              \/ Events("abortFunc")' = {}
              \/ /\ co.pc = "abort"
                 /\ co'.pc = "select"
                 /\ mu = "unlocked"
                 /\ mu' = "unlocked"
                 /\ plog'[Len(plog')].id = co.err]_vars

\* the second Reopen of a pass has failed, the callback has not returned
\* and a getter has
AbortUnlockedWitness ==
    /\ co.pc = "abort"
    /\ psnap.st = "aborted"
    /\ Len(plog) = 5
    /\ ret.op = "GetLogger"
    /\ ret.lg # Nil

(***************************************************************************)
(* Progress of the Reopen loop.                                            *)
(***************************************************************************)
CoIdle == co.pc \in {"select", "recv"}

\* C15: the mutex is never unlocked while free and is free whenever the
\* coordinator is not in its range loop; a received signal leads to the
\* coordinator back at its select with the mutex free, and a held mutex
\* is always released, so a caller waiting for it gets it.
PassTerminates ==
    /\ [](proc # "fatal")
    /\ [](~Iterating => mu = "unlocked")
    /\ (co.pc = "lock") ~> (CoIdle /\ mu = "unlocked")
    /\ (mu = "locked") ~> (mu = "unlocked")

\* C16: a channel never buffers more than one signal; the coordinator
\* reaches rangeLock only by receiving, which takes exactly the one
\* buffered signal; a pass starts only from there, with the mutex free and
\* no pass running; after the abort callback the coordinator goes back to
\* the select and nowhere else.
TriggersCoalesced ==
    /\ [](\A c \in DOMAIN chans : chans[c] <= ChanCap)
    /\ [][(co'.pc = "lock" /\ co.pc # "lock") =>
              /\ co.pc = "recv"
              /\ co.ch # Nil
              /\ chans[co.ch] = 1
              /\ chans'[co.ch] = 0]_vars
    /\ [][(psnap'.st = "running" /\ psnap.st # "running") =>
              /\ co.pc = "lock"
              /\ mu = "unlocked"
              /\ mu' = "locked"
              /\ chans' = chans]_vars
    /\ [][co.pc = "abort" => co'.pc \in {"abort", "select"}]_vars
    /\ [][co.pc = "select" => co'.pc \in {"select", "recv"}]_vars
    /\ [][co.pc = "recv" => co'.pc \in {"recv", "lock"}]_vars

\* a signal is buffered while the pass it would start cannot begin: the
\* coordinator is inside a writer's Reopen
TriggersCoalescedWitness ==
    /\ co.pc = "reopen"
    /\ co.ch # Nil
    /\ chans[co.ch] = ChanCap
    /\ mu = "locked"

\* C17: an early call that gets past its check finds the sentinel logger
\* when it looks `__early` up, however Setup is interleaved with it: the
\* lookup never comes after Setup's delete, and no early call ends in a
\* nil dereference.
EarlySafe ==
    /\ [][\A t \in Callers : EarlyBody(t) => Get(lmap, EarlyKey) # Nil]_vars
    /\ [](proc # "panic")

\* C18: every key of the handle map has a logger in the logger map, and
\* the coordinator, having reopened a writer, always gets a logger for its
\* name.
WriterHasLogger ==
    /\ [](\A k \in DOMAIN hmap : Get(lmap, k) # Nil)
    /\ [][ReopenOk => getLoggerNolock(co.name) # Nil]_vars

\* the signals buffered in x.signal
Pending == IF signal \in DOMAIN chans THEN chans[signal] ELSE 0

\* C19: once the registry is configured and a Reopen loop is running, a
\* signal buffered in the registry's channel is eventually received by
\* the loop (unless the process has ended), whether the loop was started
\* before or after Setup.
LoopServesSetup ==
    (co.pc # "off" /\ configured /\ Pending > 0)
        ~> (Pending = 0 \/ proc # "run")

(***************************************************************************)
(* Which entries a pass visits.                                            *)
(***************************************************************************)
Attempts(k) == EventsOf("Reopen", k) \cup EventsOf("ReopenErr", k)

\* C20: a pass attempts no Reopen on a name that ignorePrefix matches,
\* and a pass that reaches the end of the range has reopened exactly the
\* names it does not match; the empty prefix matches every name, so a
\* loop run with it never calls Reopen, writes no marker, changes no level
\* and never calls the abort callback.
SkipExactly ==
    /\ \A k \in Keys : HasPrefix(k, <<>>)
    /\ \A k \in DOMAIN psnap.hmap :
          /\ HasPrefix(k, co.ignorePrefix) => Attempts(k) = {}
          /\ psnap.st = "done" =>
                (EventsOf("Reopen", k) # {} <=> ~HasPrefix(k, co.ignorePrefix))
    /\ (co.pc # "off" /\ co.ignorePrefix = <<>>) =>
          /\ plog = <<>>
          /\ co.pc \in {"select", "recv", "lock", "range"}
          /\ psnap.st # "aborted"
          /\ psnap.st # "none" => LevelsAsFound

\* a pass run with the empty prefix has finished over two entries
SkipExactlyWitness ==
    /\ psnap.st = "done"
    /\ co.ignorePrefix = <<>>
    /\ Cardinality(DOMAIN psnap.hmap) = 2
    /\ plog = <<>>

====
